---- MODULE Spec2Model ----
(***************************************************************************)
(* Model of python/seg.py: region classification, style resolution,        *)
(* styling (mask painting), blending and the driver main().                *)
(* Numbers that the source compares as floats are kept as exact rationals  *)
(* <<numerator, denominator>> and compared by cross multiplication.        *)
(***************************************************************************)
EXTENDS Integers, Sequences, FiniteSets, TLC

VARIABLES pc, style, blend_alpha, STYLE_LIBRARY, img_bgr, masks, idx,
          output_img, log, styled_file, blended_file, blended_bgr,
          error, call, ret, img_np, output_is_original

vars == <<pc, style, blend_alpha, STYLE_LIBRARY, img_bgr, masks, idx,
          output_img, log, styled_file, blended_file, blended_bgr,
          error, call, ret, img_np, output_is_original>>

(* ---------------------------- bounds ----------------------------------- *)
GridH == 10
GridW == 10
MaxMasks == 2
MaxListLen == 2
MaxCalls == 2

(* The image shape <<height, width>> of the driver runs. *)
PipeShape == <<2, 2>>

(* ------------------------- program constants --------------------------- *)
EpsDen == 100000
MaxChan == 255
HexBase == 16
Hash == 16

None == "None"

Labels == {"main_walls", "side_walls", "upper_lower_walls", "pillars",
           "balcony", "roof", "doors", "windows"}

(* ------------------------- exact rationals ----------------------------- *)
Q(n, d) == <<n, d>>
QLt(a, b) == a[1] * b[2] < b[1] * a[2]
QGt(a, b) == QLt(b, a)
QGe(a, b) == ~QLt(a, b)
QMul(a, b) == <<a[1] * b[1], a[2] * b[2]>>

SetMin(S) == CHOOSE m \in S : \A n \in S : m <= n
SetMax(S) == CHOOSE m \in S : \A n \in S : m >= n

(* ----------------------------- images ---------------------------------- *)
Pixels(h, w) == (0 .. h - 1) \X (0 .. w - 1)

Black == <<0, 0, 0>>
Grey == <<200, 200, 200>>
Blue == <<200, 100, 50>>
Palette == {Black, Grey, Blue}

(* An image buffer is its shape and its pixels in B, G, R channel order;   *)
(* NoImage stands for Python's None.                                        *)
Image(h, w, px) == [h |-> h, w |-> w, px |-> px]
NoImage == Image(0, 0, <<>>)

Uniform(h, w, c) == Image(h, w, [p \in Pixels(h, w) |-> c])
Split(h, w, c1, c2) == Image(h, w, [p \in Pixels(h, w) |-> IF 2 * p[1] < h THEN c1 ELSE c2])

(* A mask is its shape and the set of its set pixels <<row, column>>.      *)
Mask(h, w, on) == [h |-> h, w |-> w, on |-> on]

Rect(y0, y1, x0, x1) == (y0 .. y1) \X (x0 .. x1)
Corners(y0, y1, x0, x1) == {<<y0, x0>>, <<y1, x1>>}

(* Masks and images are drawn by description and built when used.         *)
MaskOf(m) ==
    Mask(m.shape[1], m.shape[2],
         IF m.fill = "rect" THEN Rect(m.box[1], m.box[2], m.box[3], m.box[4])
         ELSE IF m.fill = "corners" THEN Corners(m.box[1], m.box[2], m.box[3], m.box[4])
         ELSE {})

ImageOf(shape, i) ==
    IF i = "none" THEN NoImage
    ELSE IF i = "black" THEN Uniform(shape[1], shape[2], Black)
    ELSE IF i = "grey" THEN Uniform(shape[1], shape[2], Grey)
    ELSE IF i = "blue" THEN Uniform(shape[1], shape[2], Blue)
    ELSE IF i = "black_grey" THEN Split(shape[1], shape[2], Black, Grey)
    ELSE Split(shape[1], shape[2], Blue, Black)

ImageKinds == {"black", "grey", "blue", "black_grey", "blue_black"}

AllMasks(h, w) == {Mask(h, w, on) : on \in SUBSET Pixels(h, w)}

RECURSIVE SumChan(_, _, _)
SumChan(S, image, c) ==
    IF S = {} THEN 0
    ELSE LET p == CHOOSE q \in S : TRUE
         IN image.px[p][c] + SumChan(S \ {p}, image, c)

(* ------------------------ classify_region ------------------------------ *)
(* Statistics of lines 66-83.  np.min / np.max of an empty array raise      *)
(* ValueError, so the statistics of an empty mask are the error outcome.    *)
RegionStats(mask, image) ==
    IF mask.on = {} THEN [raised |-> "ValueError"]
    ELSE
    LET ys == {p[1] : p \in mask.on}
        xs == {p[2] : p \in mask.on}
        h == mask.h
        w == mask.w
        min_y == SetMin(ys)
        max_y == SetMax(ys)
        min_x == SetMin(xs)
        max_x == SetMax(xs)
        box_height == max_y - min_y + 1
        box_width == max_x - min_x + 1
        mask_area == Cardinality(mask.on)
        hasColor == image # NoImage
    IN [raised |-> None,
        h |-> h, w |-> w,
        box_height |-> box_height,
        box_width |-> box_width,
        box_area |-> box_height * box_width,
        mask_area |-> mask_area,
        area_ratio |-> Q(mask_area, h * w),
        aspect |-> Q(box_width * EpsDen, box_height * EpsDen + 1),
        center_y |-> Q(min_y + max_y, 2 * h),
        center_x |-> Q(min_x + max_x, 2 * w),
        \* channel means as <<sum, count>>; 0, 0, 0 without an image
        avg_b |-> IF hasColor THEN Q(SumChan(mask.on, image, 1), mask_area) ELSE Q(0, 1),
        avg_g |-> IF hasColor THEN Q(SumChan(mask.on, image, 2), mask_area) ELSE Q(0, 1),
        avg_r |-> IF hasColor THEN Q(SumChan(mask.on, image, 3), mask_area) ELSE Q(0, 1)]

RoofRule(s) ==
    /\ QLt(s.center_y, Q(2, 10))
    /\ QGt(s.aspect, Q(25, 10))
    /\ QLt(Q(s.box_height, 1), QMul(Q(15, 100), Q(s.h, 1)))

BalconyRule(s) ==
    /\ QLt(Q(2, 10), s.center_y) /\ QLt(s.center_y, Q(5, 10))
    /\ QGt(s.aspect, Q(20, 10))
    /\ QLt(Q(8, 100), Q(s.box_height, s.h)) /\ QLt(Q(s.box_height, s.h), Q(25, 100))

PillarsRule(s) ==
    /\ QLt(s.aspect, Q(25, 100))
    /\ QGt(Q(s.box_height, 1), QMul(Q(4, 10), Q(s.h, 1)))
    /\ (QLt(s.center_x, Q(2, 10)) \/ QGt(s.center_x, Q(8, 10)))

SideWallsRule(s) ==
    /\ QGt(s.area_ratio, Q(15, 100))
    /\ (QLt(s.center_x, Q(3, 10)) \/ QGt(s.center_x, Q(7, 10)))

UpperWallsRule(s) ==
    /\ QGt(s.area_ratio, Q(15, 100))
    /\ QLt(s.center_y, Q(5, 10))

MainWallsRule(s) ==
    /\ QGt(s.area_ratio, Q(15, 100))
    /\ QGe(s.center_y, Q(5, 10))

DoorsShape(s) ==
    /\ QGt(s.center_y, Q(7, 10))
    /\ QGt(s.aspect, Q(6, 10))
    /\ QGt(Q(s.box_area, 1), QMul(Q(1, 100), Q(s.h * s.w, 1)))

DoorsDark(s) ==
    /\ QLt(s.avg_r, Q(120, 1))
    /\ QLt(s.avg_g, Q(120, 1))
    /\ QLt(s.avg_b, Q(120, 1))

DoorsRule(s) == DoorsShape(s) /\ DoorsDark(s)

WindowsShape(s) ==
    \/ /\ QLt(s.aspect, Q(5, 10))
       /\ QGt(Q(s.box_height, 1), QMul(Q(1, 10), Q(s.h, 1)))
    \/ /\ QLt(s.center_y, Q(6, 10))
       /\ QLt(Q(s.box_area, 1), QMul(Q(15, 100), Q(s.h * s.w, 1)))

WindowsBlueish(s) ==
    /\ QGt(s.avg_b, s.avg_r)
    /\ QGt(s.avg_b, s.avg_g)
    /\ QGt(s.avg_b, Q(130, 1))

WindowsBranch_ColourDecides(s) == IF WindowsBlueish(s) THEN "windows" ELSE "main_walls"

WindowsBranch(s) == IF WindowsBlueish(s) THEN "windows" ELSE "windows"

Heuristics_NoFallback(s) ==
    IF RoofRule(s) THEN "roof"
    ELSE IF BalconyRule(s) THEN "balcony"
    ELSE IF PillarsRule(s) THEN "pillars"
    ELSE IF SideWallsRule(s) THEN "side_walls"
    ELSE IF UpperWallsRule(s) THEN "upper_lower_walls"
    ELSE IF MainWallsRule(s) THEN "main_walls"
    ELSE IF DoorsShape(s) /\ DoorsDark(s) THEN "doors"
    ELSE IF WindowsShape(s) THEN WindowsBranch(s)
    ELSE IF QGt(s.area_ratio, Q(10, 100)) THEN "main_walls"
    ELSE None

Heuristics_WallsBeforeSides(s) ==
    IF RoofRule(s) THEN "roof"
    ELSE IF BalconyRule(s) THEN "balcony"
    ELSE IF PillarsRule(s) THEN "pillars"
    ELSE IF UpperWallsRule(s) THEN "upper_lower_walls"
    ELSE IF SideWallsRule(s) THEN "side_walls"
    ELSE IF MainWallsRule(s) THEN "main_walls"
    ELSE IF DoorsShape(s) /\ DoorsDark(s) THEN "doors"
    ELSE IF WindowsShape(s) THEN WindowsBranch(s)
    ELSE IF QGt(s.area_ratio, Q(10, 100)) THEN "main_walls"
    ELSE "main_walls"

Heuristics(s) ==
    IF RoofRule(s) THEN "roof"
    ELSE IF BalconyRule(s) THEN "balcony"
    ELSE IF PillarsRule(s) THEN "pillars"
    ELSE IF SideWallsRule(s) THEN "side_walls"
    ELSE IF UpperWallsRule(s) THEN "upper_lower_walls"
    ELSE IF MainWallsRule(s) THEN "main_walls"
    ELSE IF DoorsShape(s) /\ DoorsDark(s) THEN "doors"
    ELSE IF WindowsShape(s) THEN WindowsBranch(s)
    ELSE IF QGt(s.area_ratio, Q(10, 100)) THEN "main_walls"
    ELSE "main_walls"

IsEmptyMask_Never(mask) == FALSE

IsEmptyMask(mask) == mask.on = {}

classify_region(mask, image) ==
    IF IsEmptyMask(mask) THEN "main_walls"
    ELSE LET s == RegionStats(mask, image)
         IN IF s.raised # None THEN s.raised ELSE Heuristics(s)

(* --------------------- specification: classification ------------------- *)
ClassifyShapes == {<<GridH, GridW>>, PipeShape}

MaxDim == IF GridH > GridW THEN GridH ELSE GridW

MaskInputs ==
    {m \in [shape : ClassifyShapes,
            box : (0 .. MaxDim - 1) \X (0 .. MaxDim - 1) \X (0 .. MaxDim - 1) \X (0 .. MaxDim - 1),
            fill : {"rect", "corners", "empty"}] :
        /\ m.box[1] <= m.box[2] /\ m.box[2] < m.shape[1]
        /\ m.box[3] <= m.box[4] /\ m.box[4] < m.shape[2]
        /\ m.fill = "empty" => m.box = <<0, 0, 0, 0>>
        /\ m.fill = "corners" => (m.box[1] < m.box[2] \/ m.box[3] < m.box[4])}

ClassifyInputs ==
    [fn : {"classify_region"}, mask : MaskInputs, image : ImageKinds \cup {"none"}]

Idle ==
    /\ pc = "idle" /\ style = None /\ blend_alpha = Q(0, 1) /\ STYLE_LIBRARY = <<>>
    /\ img_bgr = NoImage /\ masks = <<>> /\ idx = 0 /\ output_img = NoImage
    /\ log = <<>> /\ styled_file = NoImage /\ blended_file = NoImage
    /\ blended_bgr = NoImage /\ error = None
    /\ img_np = NoImage /\ output_is_original = FALSE

pipeVars == <<pc, style, blend_alpha, STYLE_LIBRARY, img_bgr, masks, idx,
              output_img, log, styled_file, blended_file, blended_bgr,
              error, img_np, output_is_original>>

InitClassify ==
    /\ Idle
    /\ call \in ClassifyInputs
    /\ ret = <<>>

Classify ==
    /\ call.fn = "classify_region"
    /\ Len(ret) < MaxCalls
    /\ ret' = Append(ret, classify_region(MaskOf(call.mask), ImageOf(call.mask.shape, call.image)))
    /\ UNCHANGED <<pipeVars, call>>

NextClassify == Classify

SpecClassify == InitClassify /\ [][NextClassify]_vars

(* ------------------- recommend_style_for_region ------------------------ *)
(* A dict is the sequence of its <<key, value>> items in iteration order.  *)
Keys(d) == {d[i][1] : i \in DOMAIN d}
Get(d, k, default) ==
    IF k \in Keys(d) THEN d[CHOOSE i \in DOMAIN d : d[i][1] = k][2] ELSE default

(* Characters of a colour string: hex digits by value, Hash for '#'.       *)
OptionX == [color |-> <<Hash, 10, 10, 11, 11, 12, 12>>, texture |-> "t", material |-> "m",
            finish |-> "f", rating |-> 4, keywords |-> <<"k">>]
OptionY == [color |-> <<Hash, 15, 15, 0, 0, 0, 0>>, texture |-> "brick", material |-> "clay",
            finish |-> "matte", rating |-> 5, keywords |-> <<"warm", "red">>]
Options == {OptionX, OptionY}

Raise(e) == [raised |-> e, value |-> <<>>]
Return(v) == [raised |-> None, value |-> v]

(* lines 145-157: the list handed to random.choice *)
StyleList_NoMainWalls(region_type, st, style_library) ==
    LET direct == Get(Get(style_library, region_type, <<>>), st, <<>>)
        hits == {i \in DOMAIN style_library : Get(style_library[i][2], st, <<>>) # <<>>}
    IN IF direct # <<>> THEN direct
       ELSE IF hits # {} THEN Get(style_library[SetMin(hits)][2], st, <<>>)
       ELSE <<>>

StyleList(region_type, st, style_library) ==
    LET direct == Get(Get(style_library, region_type, <<>>), st, <<>>)
        fallback1 == IF direct = <<>>
                     THEN Get(Get(style_library, "main_walls", <<>>), st, <<>>)
                     ELSE direct
        hits == {i \in DOMAIN style_library : Get(style_library[i][2], st, <<>>) # <<>>}
    IN IF fallback1 # <<>> THEN fallback1
       ELSE IF hits # {} THEN Get(style_library[SetMin(hits)][2], st, <<>>)
       ELSE fallback1

RecTuple(rec) ==
    <<rec.color, rec.texture, rec.material, rec.finish, rec.rating, rec.keywords>>

(* line 160-161: random.choice raises IndexError on an empty sequence;     *)
(* otherwise any element may be chosen.                                    *)
RandomChoice_EmptyGivesNothing(style_list) ==
    IF style_list = <<>> THEN {Return(<<>>)}
    ELSE {Return(RecTuple(style_list[i])) : i \in DOMAIN style_list}

RandomChoice(style_list) ==
    IF style_list = <<>> THEN {Raise("IndexError")}
    ELSE {Return(RecTuple(style_list[i])) : i \in DOMAIN style_list}

(* The set of outcomes of one call. *)
recommend_style_for_region(region_type, st, style_library) ==
    RandomChoice(StyleList(region_type, st, style_library))

(* --------------------- specification: style resolution ----------------- *)
RECURSIVE SeqsUpTo(_, _)
SeqsUpTo(S, n) ==
    IF n = 0 THEN {<<>>}
    ELSE LET shorter == SeqsUpTo(S, n - 1)
         IN shorter \cup {Append(q, x) : q \in shorter, x \in S}

ListSet == SeqsUpTo(Options, MaxListLen)
StyleDicts == {<<>>} \cup {<< <<"modern", l>> >> : l \in ListSet}
RegionKeys == {"main_walls", "side_walls", "roof"}
StyleNames == {"modern", "ghost"}

RECURSIVE DictsOver(_, _)
DictsOver(keys, values) ==
    {<<>>} \cup UNION {{<< <<k, v>> >> \o d : v \in values, d \in DictsOver(keys \ {k}, values)} :
                        k \in keys}

CatalogSet == DictsOver(RegionKeys, StyleDicts)

ResolveInputs ==
    [fn : {"recommend_style_for_region"}, region_type : Labels, style : StyleNames,
     style_library : CatalogSet]

InitResolve ==
    /\ Idle
    /\ call \in ResolveInputs
    /\ ret = <<>>

Recommend ==
    /\ call.fn = "recommend_style_for_region"
    /\ ret = <<>>
    /\ \E out \in recommend_style_for_region(call.region_type, call.style, call.style_library) :
          ret' = <<out>>
    /\ UNCHANGED <<pipeVars, call>>

NextResolve == Recommend

SpecResolve == InitResolve /\ [][NextResolve]_vars

(* ----------------------- style resolution properties ------------------- *)
Resolved == call.fn = "recommend_style_for_region" /\ ret # <<>>

ListAt(lib, region, st) == Get(Get(lib, region, <<>>), st, <<>>)

(* The candidate list as the fallback chain of the specification states it. *)
Candidates(lib, region, st) ==
    IF ListAt(lib, region, st) # <<>> THEN ListAt(lib, region, st)
    ELSE IF ListAt(lib, "main_walls", st) # <<>> THEN ListAt(lib, "main_walls", st)
    ELSE IF \E i \in DOMAIN lib : ListAt(lib, lib[i][1], st) # <<>>
         THEN LET first == CHOOSE i \in DOMAIN lib :
                              /\ ListAt(lib, lib[i][1], st) # <<>>
                              /\ \A j \in 1 .. i - 1 : ListAt(lib, lib[j][1], st) = <<>>
              IN ListAt(lib, lib[first][1], st)
    ELSE <<>>

CallCandidates == Candidates(call.style_library, call.region_type, call.style)

(* C1: the option returned is an element of the first non-empty source in  *)
(* the order catalog[region][style], catalog[main_walls][style], first     *)
(* region in iteration order with a non-empty list for the style.          *)
C1_FallbackChain ==
    (Resolved /\ CallCandidates # <<>>) =>
        /\ ret[1].raised = None
        /\ \E i \in DOMAIN CallCandidates : ret[1].value = RecTuple(CallCandidates[i])

C1_Witness ==
    /\ Resolved
    /\ call.region_type = "roof" /\ call.style = "modern"
    /\ call.style_library = << <<"side_walls", << <<"modern", <<OptionY>> >> >> >>,
                               <<"main_walls", << <<"modern", <<OptionX>> >> >> >> >>
    /\ ret[1] = Return(RecTuple(OptionX))

Exhausted == \A i \in DOMAIN call.style_library :
                 Get(call.style_library[i][2], call.style, <<>>) = <<>>

RECURSIVE LStrip(_, _)
LStrip(str, ch) ==
    IF str # <<>> /\ Head(str) = ch THEN LStrip(Tail(str), ch) ELSE str

HexInt(hi, lo) == HexBase * hi + lo

hex_to_bgr(hex_color) ==
    LET hx == LStrip(hex_color, Hash)
        r == HexInt(hx[1], hx[2])
        g == HexInt(hx[3], hx[4])
        b == HexInt(hx[5], hx[6])
    IN <<b, g, r>>

(* cv2.cvtColor COLOR_BGR2RGB / COLOR_RGB2BGR: swap first and third channel *)
SwapRB(image) ==
    Image(image.h, image.w, [p \in DOMAIN image.px |-> <<image.px[p][3], image.px[p][2], image.px[p][1]>>])

(* ------------------------------ blending ------------------------------- *)
(* cv2.addWeighted on uint8: saturate(round(src1*alpha + src2*beta + 0)),  *)
(* rounding to nearest with ties to even.                                  *)
RoundHalfEven(n, d) ==
    LET q == n \div d
        r == n % d
    IN IF 2 * r < d THEN q
       ELSE IF 2 * r > d THEN q + 1
       ELSE IF q % 2 = 0 THEN q ELSE q + 1

Saturate(v) == IF v < 0 THEN 0 ELSE IF v > MaxChan THEN MaxChan ELSE v

OneMinus(a) == Q(a[2] - a[1], a[2])

AddWeightedChan_SwappedWeights(src1, alpha, src2, beta) ==
    Saturate(RoundHalfEven(src1 * beta[1] * alpha[2] + src2 * alpha[1] * beta[2], alpha[2] * beta[2]))

AddWeightedChan(src1, alpha, src2, beta) ==
    Saturate(RoundHalfEven(src1 * alpha[1] * beta[2] + src2 * beta[1] * alpha[2], alpha[2] * beta[2]))

AddWeighted(img1, alpha, img2, beta) ==
    Image(img1.h, img1.w,
          [p \in DOMAIN img1.px |->
              <<AddWeightedChan(img1.px[p][1], alpha, img2.px[p][1], beta),
                AddWeightedChan(img1.px[p][2], alpha, img2.px[p][2], beta),
                AddWeightedChan(img1.px[p][3], alpha, img2.px[p][3], beta)>>])

(* --------------------- specification: blending ------------------------- *)
BlendAlphas == {Q(0, 4), Q(1, 4), Q(2, 4), Q(3, 4), Q(4, 4)}

BlendInputs ==
    [fn : {"addWeighted"}, original : 0 .. MaxChan, styled : 0 .. MaxChan, blend_alpha : BlendAlphas]

InitBlend ==
    /\ Idle
    /\ call \in BlendInputs
    /\ ret = <<>>

BlendChannel ==
    /\ call.fn = "addWeighted"
    /\ ret = <<>>
    /\ ret' = <<AddWeightedChan(call.original, OneMinus(call.blend_alpha), call.styled, call.blend_alpha)>>
    /\ UNCHANGED <<pipeVars, call>>

NextBlend == BlendChannel

SpecBlend == InitBlend /\ [][NextBlend]_vars

Blended == call.fn = "addWeighted" /\ ret # <<>>

(* C8: at blend factor 0 the blended channel equals the original channel   *)
(* and at blend factor 1 it equals the styled channel, for all 8-bit       *)
(* values of both.                                                         *)
C8_BlendEndpoints ==
    Blended =>
        /\ call.blend_alpha[1] = 0 => ret[1] = call.original
        /\ call.blend_alpha[1] = call.blend_alpha[2] => ret[1] = call.styled

C8_Witness ==
    /\ Blended
    /\ call.blend_alpha = Q(4, 4) /\ call.original = 0 /\ call.styled = MaxChan
    /\ ret[1] = MaxChan

(* ------------------- apply_style_recommendations ----------------------- *)
(* line 199: output_img[mask == 1] = color_bgr *)
Paint_WholeImage(output, mask, color_bgr) ==
    Image(output.h, output.w, [p \in DOMAIN output.px |-> color_bgr])

Paint(output, mask, color_bgr) ==
    Image(output.h, output.w,
          [p \in DOMAIN output.px |-> IF p \in mask.on THEN color_bgr ELSE output.px[p]])

(* line 177: output_img = original_img.copy() is a new buffer with the     *)
(* pixels of the original; is_original tells whether the two names denote  *)
(* the same buffer.                                                        *)
CopyImage_SameBuffer(image) == [buffer |-> image, is_original |-> TRUE]

CopyImage(image) == [buffer |-> image, is_original |-> FALSE]

(* line 199 assigns in place: the write reaches the original image only    *)
(* when the output is the original's own buffer.                           *)
OriginalAfterWrite(original, output_after, is_original) ==
    IF is_original THEN output_after ELSE original

(* line 180: enumerate(masks) visits the masks in list order *)
NextMask_LargestFirst(mask_list, i) ==
    LET byArea == CHOOSE perm \in [1 .. Len(mask_list) -> 1 .. Len(mask_list)] :
                     /\ \A a, b \in 1 .. Len(mask_list) : a # b => perm[a] # perm[b]
                     /\ \A a, b \in 1 .. Len(mask_list) :
                           a < b => \/ Cardinality(mask_list[perm[a]].on) > Cardinality(mask_list[perm[b]].on)
                                    \/ /\ Cardinality(mask_list[perm[a]].on) = Cardinality(mask_list[perm[b]].on)
                                       /\ perm[a] < perm[b]
    IN mask_list[byArea[i + 1]]

NextMask(mask_list, i) == mask_list[i + 1]

(* ------------------------------- main ---------------------------------- *)
PipeAlphas == {Q(2, 4), Q(4, 4)}
PipeImages == {ImageOf(PipeShape, "black"), ImageOf(PipeShape, "blue_black")}
PipeMaskLists == SeqsUpTo(AllMasks(PipeShape[1], PipeShape[2]), MaxMasks)

Entry(region, list) == <<region, << <<"modern", list>> >> >>
PipeCatalogs ==
    { <<>>,
      << Entry("main_walls", <<OptionX>>) >>,
      << Entry("main_walls", <<OptionX, OptionY>>) >>,
      << Entry("side_walls", <<OptionY>>), Entry("main_walls", <<OptionX>>) >>,
      << Entry("roof", <<OptionY>>) >> }

Running(at) == pc = at /\ error = None

(* lines 208-217: the state after argument parsing *)
Init ==
    /\ pc = "load_library"
    /\ style \in StyleNames
    /\ blend_alpha \in PipeAlphas
    /\ STYLE_LIBRARY = <<>>
    /\ img_bgr = NoImage /\ masks = <<>> /\ idx = 0 /\ output_img = NoImage
    /\ log = <<>> /\ styled_file = NoImage /\ blended_file = NoImage
    /\ blended_bgr = NoImage /\ error = None
    /\ call = [fn |-> "main"] /\ ret = <<>>
    /\ img_np = NoImage /\ output_is_original = FALSE

Fail(e) ==
    /\ error' = e
    /\ UNCHANGED <<pc, style, blend_alpha, STYLE_LIBRARY, img_bgr, masks, idx, output_img,
                   log, styled_file, blended_file, blended_bgr, call, ret, img_np, output_is_original>>

(* lines 220-223 *)
LoadLibrary ==
    /\ Running("load_library")
    /\ STYLE_LIBRARY' \in PipeCatalogs
    /\ pc' = "load_model"
    /\ UNCHANGED <<style, blend_alpha, img_bgr, masks, idx, output_img, log, styled_file,
                   blended_file, blended_bgr, error, call, ret, img_np, output_is_original>>

LoadLibraryFail == Running("load_library") /\ Fail("OSError")

(* lines 226-232 *)
LoadModel ==
    /\ Running("load_model")
    /\ pc' = "load_image"
    /\ UNCHANGED <<style, blend_alpha, STYLE_LIBRARY, img_bgr, masks, idx, output_img, log,
                   styled_file, blended_file, blended_bgr, error, call, ret, img_np, output_is_original>>

LoadModelFail == Running("load_model") /\ Fail("SegmenterFailure")

(* lines 235-245: a 3- or 4-channel image is converted to BGR *)
LoadImage ==
    /\ Running("load_image")
    /\ img_np' \in {SwapRB(i) : i \in PipeImages}
    /\ img_bgr' = SwapRB(img_np')
    /\ pc' = "segment"
    /\ UNCHANGED <<style, blend_alpha, STYLE_LIBRARY, masks, idx, output_img, log, styled_file,
                   blended_file, blended_bgr, error, call, ret, output_is_original>>

(* line 240: img_np.shape[2] of a 2-D (greyscale) array raises IndexError *)
LoadImageGrey == Running("load_image") /\ Fail("IndexError")

LoadImageFail == Running("load_image") /\ Fail("OSError")

(* lines 248-250 *)
Segment ==
    /\ Running("segment")
    /\ masks' \in PipeMaskLists
    /\ pc' = "apply"
    /\ UNCHANGED <<style, blend_alpha, STYLE_LIBRARY, img_bgr, idx, output_img, log, styled_file,
                   blended_file, blended_bgr, error, call, ret, img_np, output_is_original>>

SegmentFail == Running("segment") /\ Fail("SegmenterFailure")

(* lines 254, 177 *)
BeginStyling ==
    /\ Running("apply")
    /\ output_img' = CopyImage(img_bgr).buffer
    /\ output_is_original' = CopyImage(img_bgr).is_original
    /\ idx' = 0
    /\ pc' = "style"
    /\ UNCHANGED <<style, blend_alpha, STYLE_LIBRARY, img_bgr, masks, log, styled_file,
                   blended_file, blended_bgr, error, call, ret, img_np>>

(* lines 180-199: one iteration of the loop over the masks *)
StyleStep ==
    /\ Running("style")
    /\ idx < Len(masks)
    /\ LET mask == NextMask(masks, idx)
           region_type == classify_region(mask, img_bgr)
       IN \E out \in recommend_style_for_region(region_type, style, STYLE_LIBRARY) :
            IF out.raised # None
            THEN /\ error' = out.raised
                 /\ UNCHANGED <<idx, output_img, log, img_bgr>>
            ELSE /\ log' = Append(log, [idx |-> idx, region_type |-> region_type, rec |-> out.value])
                 /\ output_img' = Paint(output_img, mask, hex_to_bgr(out.value[1]))
                 /\ img_bgr' = OriginalAfterWrite(img_bgr, output_img', output_is_original)
                 /\ idx' = idx + 1
                 /\ UNCHANGED error
    /\ UNCHANGED <<pc, style, blend_alpha, STYLE_LIBRARY, masks, styled_file,
                   blended_file, blended_bgr, call, ret, img_np, output_is_original>>

(* lines 201, 254-255 *)
EndStyling ==
    /\ Running("style")
    /\ idx = Len(masks)
    /\ pc' = "save_styled"
    /\ UNCHANGED <<style, blend_alpha, STYLE_LIBRARY, img_bgr, masks, idx, output_img, log,
                   styled_file, blended_file, blended_bgr, error, call, ret, img_np, output_is_original>>

SaveStyled_InsideLoop ==
    /\ Running("style")
    /\ styled_file' = SwapRB(output_img)
    /\ pc' = "blend"
    /\ UNCHANGED <<style, blend_alpha, STYLE_LIBRARY, img_bgr, masks, idx, output_img, log,
                   blended_file, blended_bgr, error, call, ret, img_np, output_is_original>>

(* lines 255-259 *)
SaveStyled ==
    /\ Running("save_styled")
    /\ styled_file' = SwapRB(output_img)
    /\ pc' = "blend"
    /\ UNCHANGED <<style, blend_alpha, STYLE_LIBRARY, img_bgr, masks, idx, output_img, log,
                   blended_file, blended_bgr, error, call, ret, img_np, output_is_original>>

SaveStyledFail == Running("save_styled") /\ Fail("OSError")

(* lines 262-281 *)
Blend ==
    /\ Running("blend")
    /\ LET styled_image_rgb == SwapRB(output_img)
           img_np_bgr == SwapRB(img_np)
           styled_image_bgr == SwapRB(styled_image_rgb)
       IN blended_bgr' = AddWeighted(img_np_bgr, OneMinus(blend_alpha), styled_image_bgr, blend_alpha)
    /\ pc' = "save_blended"
    /\ UNCHANGED <<style, blend_alpha, STYLE_LIBRARY, img_bgr, masks, idx, output_img, log,
                   styled_file, blended_file, error, call, ret, img_np, output_is_original>>

(* lines 281-287 *)
SaveBlended ==
    /\ Running("save_blended")
    /\ blended_file' = SwapRB(blended_bgr)
    /\ pc' = "done"
    /\ UNCHANGED <<style, blend_alpha, STYLE_LIBRARY, img_bgr, masks, idx, output_img, log,
                   styled_file, blended_bgr, error, call, ret, img_np, output_is_original>>

SaveBlendedFail == Running("save_blended") /\ Fail("OSError")

Next ==
    \/ LoadLibrary \/ LoadLibraryFail
    \/ LoadModel \/ LoadModelFail
    \/ LoadImage \/ LoadImageGrey \/ LoadImageFail
    \/ Segment \/ SegmentFail
    \/ BeginStyling \/ StyleStep \/ EndStyling
    \/ SaveStyled \/ SaveStyledFail
    \/ Blend
    \/ SaveBlended \/ SaveBlendedFail

Spec == Init /\ [][Next]_vars

(* --------------------------- pipeline properties ----------------------- *)
BlendedComputed == pc \in {"save_blended", "done"}
UpToStyling == pc \in {"load_library", "load_model", "load_image", "segment", "apply", "style"}
UpToBlending == UpToStyling \/ pc \in {"save_styled", "blend"}

(* C3 as stated: no output file is written before both the styled and the  *)
(* blended image have been computed; after a failure at any step up to and *)
(* including blending neither output file has been written.                *)
C3_NoWriteBeforeBothComputed ==
    /\ (styled_file # NoImage \/ blended_file # NoImage) => BlendedComputed
    /\ (error # None /\ UpToBlending) => (styled_file = NoImage /\ blended_file = NoImage)

(* C3 amended: each output file is written only after the image it holds   *)
(* has been computed (the styled file after the loop over all masks, the   *)
(* blended file after blending and after the styled file); after a failure *)
(* at any step up to and including styling neither file has been written.  *)
C3_WriteAfterOwnComputation ==
    /\ styled_file # NoImage =>
          /\ pc \in {"blend", "save_blended", "done"}
          /\ idx = Len(masks)
          /\ styled_file = SwapRB(output_img)
    /\ blended_file # NoImage =>
          /\ pc = "done"
          /\ styled_file # NoImage
          /\ blended_file = SwapRB(blended_bgr)
    /\ (error # None /\ UpToStyling) => (styled_file = NoImage /\ blended_file = NoImage)

C3_Witness ==
    /\ Running("blend")
    /\ Len(masks) = MaxMasks /\ idx = MaxMasks
    /\ styled_file = SwapRB(output_img) /\ styled_file # SwapRB(img_bgr)
    /\ blended_bgr = NoImage /\ blended_file = NoImage

CoveredBy(p, n) == {i \in 1 .. n : p \in masks[i].on}

(* C7: during and after styling, every pixel covered by at least one       *)
(* processed mask has the colour resolved for the last mask, in the order  *)
(* received, that covers it; the k-th mask processed is the k-th received. *)
C7_LastWriteWins ==
    (pc \in {"style", "save_styled", "blend", "save_blended", "done"}) =>
        /\ Len(log) = idx
        /\ \A i \in 1 .. idx :
              /\ log[i].idx = i - 1
              /\ log[i].region_type = classify_region(masks[i], img_bgr)
        /\ \A p \in Pixels(PipeShape[1], PipeShape[2]) :
              CoveredBy(p, idx) # {} =>
                 output_img.px[p] = hex_to_bgr(log[SetMax(CoveredBy(p, idx))].rec[1])

C7_Witness ==
    /\ Running("save_styled")
    /\ Len(masks) >= 2 /\ idx = Len(masks)
    /\ log[1].rec = RecTuple(OptionX) /\ log[2].rec = RecTuple(OptionY)
    /\ \E p, q \in Pixels(PipeShape[1], PipeShape[2]) :
          /\ CoveredBy(p, 2) = {1, 2} /\ CoveredBy(q, 2) = {1}
          /\ output_img.px[p] = hex_to_bgr(OptionY.color)
          /\ output_img.px[q] = hex_to_bgr(OptionX.color)

C9_Scenario ==
    /\ BlendedComputed
    /\ masks = <<Mask(PipeShape[1], PipeShape[2], {})>>
    /\ img_bgr = ImageOf(PipeShape, "black")
    /\ STYLE_LIBRARY = << Entry("main_walls", <<OptionX>>) >>
    /\ style = "modern"
    /\ blend_alpha = Q(2, 4)

HalfOf(v, full) == full - 2 * v \in {-1, 0, 1}

(* C9 as stated: a single all-false mask over an all-black image with the  *)
(* catalog main_walls.modern = [#AABBCC] is labelled main_walls, resolves  *)
(* to that option, and blending at 0.5 colours every pixel at half the     *)
(* intensity of #AABBCC.                                                   *)
C9_HalfIntensityEverywhere ==
    C9_Scenario =>
        /\ log = <<[idx |-> 0, region_type |-> "main_walls", rec |-> RecTuple(OptionX)]>>
        /\ \A p \in Pixels(PipeShape[1], PipeShape[2]) : \A c \in 1 .. 3 :
              HalfOf(blended_bgr.px[p][c], hex_to_bgr(OptionX.color)[c])

(* C9 amended: in that scenario the mask is labelled main_walls and        *)
(* resolves to that option, and, the mask covering no pixel, the blended   *)
(* image equals the all-black original at every pixel.                     *)
C9_EmptyMaskLeavesBlack ==
    C9_Scenario =>
        /\ log = <<[idx |-> 0, region_type |-> "main_walls", rec |-> RecTuple(OptionX)]>>
        /\ \A p \in Pixels(PipeShape[1], PipeShape[2]) :
              blended_bgr.px[p] = Black /\ blended_bgr.px[p] = img_bgr.px[p]

C9_Witness ==
    /\ C9_Scenario /\ pc = "done" /\ error = None
    /\ hex_to_bgr(log[1].rec[1]) = <<204, 187, 170>>
    /\ blended_file = ImageOf(PipeShape, "black")

OriginalGiven == SwapRB(img_np)

(* C11: apply_style_recommendations never modifies the original image it   *)
(* is given, and in the styled image every pixel covered by no processed   *)
(* mask has the value it has in the original; with zero masks the styled   *)
(* image equals the original.                                              *)
C11_OriginalAndUncoveredKept ==
    (pc \in {"style", "save_styled", "blend", "save_blended", "done"}) =>
        /\ img_bgr = OriginalGiven
        /\ \A p \in Pixels(PipeShape[1], PipeShape[2]) :
              CoveredBy(p, idx) = {} => output_img.px[p] = OriginalGiven.px[p]
        /\ Len(masks) = 0 => output_img = OriginalGiven

C11_Witness ==
    /\ Running("save_styled")
    /\ Len(masks) = MaxMasks /\ idx = MaxMasks
    /\ img_bgr = ImageOf(PipeShape, "blue_black") /\ img_bgr = OriginalGiven
    /\ output_img # img_bgr
    /\ \E p, q \in Pixels(PipeShape[1], PipeShape[2]) :
          /\ CoveredBy(p, idx) = {} /\ output_img.px[p] = Blue
          /\ CoveredBy(q, idx) # {} /\ output_img.px[q] # img_bgr.px[q]

C11_ZeroMasksWitness ==
    /\ Running("save_styled") /\ masks = <<>>
    /\ output_img = OriginalGiven /\ output_img = ImageOf(PipeShape, "blue_black")

(* ----------------------- classification properties -------------------- *)
CallMask == MaskOf(call.mask)
CallImage == ImageOf(call.mask.shape, call.image)
CallStats == RegionStats(CallMask, CallImage)
Classified == call.fn = "classify_region" /\ ret # <<>>

(* C4: classify_region is total and deterministic: every call, for every  *)
(* mask and image (the empty mask included), returns one of the eight      *)
(* labels, and repeated calls on the same input return the same label.     *)
C4_TotalDeterministic ==
    Classified => \A i \in DOMAIN ret : ret[i] \in Labels /\ ret[i] = ret[1]

C4_Witness ==
    /\ Classified /\ Len(ret) = MaxCalls
    /\ call.mask.fill = "corners" /\ call.image = "grey"
    /\ ret[1] = "main_walls" /\ ret[MaxCalls] = "main_walls"
    /\ ~QGt(CallStats.area_ratio, Q(15, 100)) /\ ~WindowsShape(CallStats)

RuleLabel == <<"roof", "balcony", "pillars", "side_walls", "upper_lower_walls",
               "main_walls", "doors", "windows", "main_walls">>

RuleMatches(i, s) ==
    CASE i = 1 -> RoofRule(s)
      [] i = 2 -> BalconyRule(s)
      [] i = 3 -> PillarsRule(s)
      [] i = 4 -> SideWallsRule(s)
      [] i = 5 -> UpperWallsRule(s)
      [] i = 6 -> MainWallsRule(s)
      [] i = 7 -> DoorsRule(s)
      [] i = 8 -> WindowsShape(s)
      [] OTHER -> TRUE

FirstMatch(s) == SetMin({i \in 1 .. 9 : RuleMatches(i, s)})

(* C5: for a non-empty mask the label returned is the label of the         *)
(* lowest-numbered rule whose predicate the statistics satisfy (roof,      *)
(* balcony, pillars, side_walls, upper_lower_walls, main_walls, doors,     *)
(* windows, fallback); statistics satisfying both the roof and the         *)
(* side_walls predicate yield roof.                                        *)
C5_FirstMatchWins ==
    (Classified /\ call.mask.fill # "empty") =>
        /\ ret[1] = RuleLabel[FirstMatch(CallStats)]
        /\ (RoofRule(CallStats) /\ SideWallsRule(CallStats)) => ret[1] = "roof"

C5_Witness ==
    /\ Classified /\ call.mask.fill # "empty"
    /\ SideWallsRule(CallStats) /\ UpperWallsRule(CallStats) /\ WindowsShape(CallStats)
    /\ FirstMatch(CallStats) = 4
    /\ ret[1] = "side_walls"

(* No mask satisfies the roof and the side_walls predicate together: a     *)
(* box lower than 0.15 h holds fewer than 0.15 h w pixels.                  *)
RoofAndSideWallsDisjoint ==
    (call.fn = "classify_region" /\ call.mask.fill # "empty") =>
        ~(RoofRule(CallStats) /\ SideWallsRule(CallStats))

(* C6: every mask with no set pixel, of any shape and with or without an   *)
(* image, is classified main_walls by the early return, without computing  *)
(* the region statistics (which raise on an empty mask).                   *)
C6_EmptyMaskIsMainWalls ==
    (Classified /\ call.mask.fill = "empty") =>
        \A i \in DOMAIN ret : ret[i] = "main_walls"

C6_Witness ==
    /\ Classified /\ call.mask.fill = "empty"
    /\ call.mask.shape = <<GridH, GridW>> /\ call.image = "none"
    /\ RegionStats(CallMask, CallImage).raised = "ValueError"
    /\ ret[1] = "main_walls"

NoEarlierRule(s) == \A i \in 1 .. 7 : ~RuleMatches(i, s)

(* C10: the windows rule does not depend on colour: a region that matches  *)
(* none of rules 1-7 and passes the windows shape/position test is         *)
(* classified windows, and so is the same region over any other image for  *)
(* which it matches none of rules 1-7.                                     *)
C10_WindowsIgnoresColour ==
    (Classified /\ call.mask.fill # "empty"
       /\ NoEarlierRule(CallStats) /\ WindowsShape(CallStats)) =>
        /\ ret[1] = "windows"
        /\ \A j \in ImageKinds \cup {"none"} :
              LET image2 == ImageOf(call.mask.shape, j)
              IN NoEarlierRule(RegionStats(CallMask, image2))
                    => classify_region(CallMask, image2) = ret[1]

C10_Witness ==
    /\ Classified /\ call.mask.fill # "empty"
    /\ NoEarlierRule(CallStats) /\ WindowsShape(CallStats)
    /\ ~WindowsBlueish(CallStats) /\ call.image = "grey"
    /\ WindowsBlueish(RegionStats(CallMask, ImageOf(call.mask.shape, "blue")))
    /\ ret[1] = "windows"

====
